---- MODULE Spec2Model ----
(***************************************************************************)
(* HANDIQ workshop booking backend (src/main.py, src/schemas.py).          *)
(*                                                                         *)
(* The document store is modelled as four collections: workshop, session,  *)
(* booking (a sequence, in insertion order) and email (the notification    *)
(* log, a sequence, in insertion order).  Time is counted in hours from    *)
(* the moment the store was seeded.                                        *)
(*                                                                         *)
(* Identifiers.  A store id (bson ObjectId) is modelled as a natural       *)
(* number.  An id *string*, as a client sends it and as a booking stores   *)
(* it in session_id, is a pair: <<"hex", n>> is the 24-digit lowercase     *)
(* hexadecimal rendering of id n (what str(ObjectId) produces),            *)
(* <<"HEX", n>> is the same 24 digits written in upper case (ObjectId()    *)
(* parses hexadecimal digits of either case), and <<"bad", 0>> is a string *)
(* that is not 24 hexadecimal digits.                                      *)
(***************************************************************************)
EXTENDS Integers, Sequences, FiniteSets, TLC

VARIABLES workshop, session, booking, email, now, last, pc, req, loc, res

vars == <<workshop, session, booking, email, now, last, pc, req, loc, res>>

store == <<workshop, session, booking, email>>

conc == <<pc, req, loc, res>>

(* ------------------------------ bounds --------------------------------- *)

\* The booking collection holds at most this many documents.
MaxBookings == 2

\* The email log holds at most this many entries.
MaxEmails == 4

(* ------------------------- program constants --------------------------- *)

\* capacity of every seeded session
Capacity == 10

\* the reminder window, in hours
ReminderWindow == 24

\* WORKSHOPS, restricted to the fields the handlers read (two of the four
\* seeded workshops)
WORKSHOPS ==
  << [slug |-> "scrapbooking", price |-> 1999],
     [slug |-> "pottery", price |-> 2499] >>

\* The sessions ensure_seed creates: start = now + d days + 10 hours.  The
\* model keeps the first day's session of one workshop and the second day's
\* session of the other.
SeedSessions ==
  << [_id |-> 1, workshop_slug |-> "pottery", start_time |-> 24 + 10,
      capacity |-> Capacity],
     [_id |-> 2, workshop_slug |-> "scrapbooking", start_time |-> 2 * 24 + 10,
      capacity |-> Capacity] >>

AdminAddress == "admin@handiq.example"

NoReference == "None"

(* ------------------------------ helpers -------------------------------- *)

Range(f) == {f[i] : i \in DOMAIN f}

RECURSIVE SumSeats(_)
SumSeats(bs) ==
  IF bs = <<>> THEN 0 ELSE bs[1].seats + SumSeats(Tail(bs))

\* ObjectId(id_str): the parsed id, or Invalid when the string is not 24
\* hexadecimal digits.  Upper- and lower-case digits parse to the same id.
Invalid == -1

ParseObjectId(id_str) ==
  IF id_str[1] \in {"hex", "HEX"} THEN id_str[2] ELSE Invalid

\* str(ObjectId): always the lowercase rendering.
str(id) == <<"hex", id>>

\* oid without the validation: whatever digits the string carries are used.
oid_NoValidation(id_str) == id_str[2]

\* oid(id_str): the parsed id; Invalid stands for the raised
\* HTTPException(400, "Invalid id").
oid(id_str) == ParseObjectId(id_str)

(* --------------------------- document store ---------------------------- *)

\* find_one: the first matching document, as a sequence of length 0 or 1
\* (the empty sequence stands for None).
First(docs) == IF docs = <<>> THEN <<>> ELSE <<docs[1]>>

FindWorkshop(slug) ==
  First(SelectSeq(workshop, LAMBDA w : w.slug = slug))

FindSession(id) ==
  First(SelectSeq(session, LAMBDA s : s._id = id))

FindBooking(bs, id) ==
  First(SelectSeq(bs, LAMBDA b : b._id = id))

\* The two statuses that hold seats.
ActiveStatuses == {"pending_payment", "confirmed"}

\* The $match/$group aggregate of create_booking: the sum of seats over the
\* bookings whose session_id field equals the given string and whose status
\* is pending_payment or confirmed; 0 when the aggregate yields nothing.
TotalBooked(bs, session_id) ==
  SumSeats(SelectSeq(bs, LAMBDA b :
             b.session_id = session_id /\ b.status \in ActiveStatuses))

\* The id the store gives to the next booking document.
NewBookingId(bs) == Len(SeedSessions) + Len(bs) + 1

\* create_document("booking", data): the collection with the document
\* inserted; the returned id is str(NewBookingId(bs)).
InsertBooking(bs, data) ==
  Append(bs, [_id |-> NewBookingId(bs),
              workshop_slug |-> data.workshop_slug,
              session_id |-> data.session_id,
              customer_email |-> data.customer_email,
              seats |-> data.seats,
              amount |-> data.amount,
              status |-> data.status,
              payment_reference |-> NoReference])

\* update_one with the filter lost: every booking is updated.
UpdateBooking_All(bs, id, ref) ==
  [i \in DOMAIN bs |->
     [bs[i] EXCEPT !.status = "confirmed", !.payment_reference = ref]]

\* update_one guarded by the prior status (a compare-and-swap on
\* pending_payment).
UpdateBooking_IfPending(bs, id, ref) ==
  [i \in DOMAIN bs |->
     IF bs[i]._id = id /\ bs[i].status = "pending_payment"
     THEN [bs[i] EXCEPT !.status = "confirmed", !.payment_reference = ref]
     ELSE bs[i]]

\* update_one({"_id": id}, {"$set": {status, payment_reference}})
UpdateBooking(bs, id, ref) ==
  [i \in DOMAIN bs |->
     IF bs[i]._id = id
     THEN [bs[i] EXCEPT !.status = "confirmed", !.payment_reference = ref]
     ELSE bs[i]]

(* ------------------------------ requests ------------------------------- *)

\* Session id strings a client may send: the seeded sessions in lowercase,
\* session 1 in upper case, a well-formed id of no document, a malformed id.
SessionIdStrings ==
  {<<"hex", 1>>, <<"HEX", 1>>, <<"hex", 2>>, <<"hex", 0>>, <<"bad", 0>>}

CustomerEmails == {"ann@mail.example", "bob@mail.example"}

\* BookingRequest.seats is a plain int.
SeatValues == {0, 1, Capacity}

\* Every combination for the workshop of session 1 (session 2 is then the
\* session of another workshop); for the unknown slug, which fails at the
\* first lookup whatever else is sent, one seat value and one customer.
BookingRequests ==
  [workshop_slug : {"pottery"}, session_id : SessionIdStrings,
   customer_email : CustomerEmails, seats : SeatValues]
  \cup
  [workshop_slug : {"macrame"}, session_id : SessionIdStrings,
   customer_email : {"ann@mail.example"}, seats : {1}]

BookingIdStrings ==
  {<<"hex", Len(SeedSessions) + k>> : k \in 1..MaxBookings}
    \cup {<<"hex", 0>>, <<"bad", 0>>}

PaymentReferences == {"ref-A", "ref-B"}

PaymentConfirmRequests ==
  [booking_id : BookingIdStrings, payment_reference : PaymentReferences]

\* Readings of the clock, in hours since the seed.
ClockValues == {10, 35}

(* ------------------------------ handlers ------------------------------- *)

\* What a handler leaves behind: the request it served (op, args), the
\* response (status, detail, body), the store calls it made, and the booking
\* and email collections.
Outcome(op, args, status, detail, body, calls, bs, es) ==
  [last |-> [op |-> op, args |-> args, status |-> status, detail |-> detail,
             body |-> body, calls |-> calls],
   booking |-> bs, email |-> es]

\* the session test without the comparison of the workshop slug
InvalidSession_NoSlugCheck(s, workshop_slug) == s = <<>>

\* create_booking's test of the session it looked up
InvalidSession(s, workshop_slug) ==
  s = <<>> \/ s[1].workshop_slug # workshop_slug

\* available = s["capacity"] - total_booked: not floored at 0
Available(s, total_booked) == s.capacity - total_booked

\* the capacity gate
SeatsExceed(seats, available) == seats > available

\* the amount without the multiplication by the seats
Amount_PriceOnly(w, seats) == w.price

\* amount = float(w.get("price", 0)) * payload.seats
Amount(w, seats) == w.price * seats

\* the document create_booking inserts (customer_name and customer_phone,
\* which no handler reads, are left out)
BookingDocument(payload, amount) ==
  [workshop_slug |-> payload.workshop_slug,
   session_id |-> payload.session_id,
   customer_email |-> payload.customer_email,
   seats |-> payload.seats,
   amount |-> amount,
   status |-> "pending_payment"]

\* the log entry create_booking writes (the fixed subject is left out)
BookingCreatedEmail(payload, booking_id) ==
  [type |-> "booking_created",
   to |-> payload.customer_email,
   booking_id |-> booking_id]

\* POST /api/bookings
create_booking(payload, bs, es) ==
  LET w == FindWorkshop(payload.workshop_slug) IN
  IF w = <<>> THEN
    Outcome("create_booking", payload, 404, <<"Workshop not found">>, <<>>,
            <<"workshop.find_one">>, bs, es)
  ELSE IF oid(payload.session_id) = Invalid THEN
    Outcome("create_booking", payload, 400, <<"Invalid id">>, <<>>,
            <<"workshop.find_one">>, bs, es)
  ELSE
  LET s == FindSession(oid(payload.session_id)) IN
  IF InvalidSession(s, payload.workshop_slug) THEN
    Outcome("create_booking", payload, 400, <<"Invalid session">>, <<>>,
            <<"workshop.find_one", "session.find_one">>, bs, es)
  ELSE
  LET total_booked == TotalBooked(bs, payload.session_id)
      available == Available(s[1], total_booked)
  IN
  IF SeatsExceed(payload.seats, available) THEN
    Outcome("create_booking", payload, 400, <<"Only", available, "seats left">>, <<>>,
            <<"workshop.find_one", "session.find_one", "booking.aggregate">>,
            bs, es)
  ELSE
  LET amount == Amount(w[1], payload.seats)
      booking_id == str(NewBookingId(bs))
  IN
    Outcome("create_booking", payload, 200, <<"OK">>, <<booking_id, amount, "INR">>,
            <<"workshop.find_one", "session.find_one", "booking.aggregate",
              "booking.insert_one", "email.insert_one">>,
            InsertBooking(bs, BookingDocument(payload, amount)),
            Append(es, BookingCreatedEmail(payload, booking_id)))

\* the two log entries confirm_payment writes, for the booking b it re-read
ConfirmationEmails(b, payload) ==
  << [type |-> "booking_confirmed",
      to |-> b.customer_email,
      booking_id |-> payload.booking_id,
      payment_reference |-> payload.payment_reference],
     [type |-> "admin_new_booking",
      to |-> AdminAddress,
      booking_id |-> payload.booking_id] >>

\* POST /api/payments/confirm
confirm_payment(payload, bs, es) ==
  IF oid(payload.booking_id) = Invalid THEN
    Outcome("confirm_payment", payload, 400, <<"Invalid id">>, <<>>, <<>>, bs, es)
  ELSE
  LET id == oid(payload.booking_id)
      matched == FindBooking(bs, id)
  IN
  IF matched = <<>> THEN
    Outcome("confirm_payment", payload, 404, <<"Booking not found">>, <<>>,
            <<"booking.update_one">>, bs, es)
  ELSE
  LET updated == UpdateBooking(bs, id, payload.payment_reference)
      b == FindBooking(updated, id)
  IN
    Outcome("confirm_payment", payload, 200, <<"OK">>, <<"confirmed">>,
            <<"booking.update_one", "booking.find_one", "email.insert_one",
              "email.insert_one">>,
            updated, es \o ConfirmationEmails(b[1], payload))

\* GET /api/bookings/{booking_id}
get_booking(booking_id, bs, es) ==
  IF oid(booking_id) = Invalid THEN
    Outcome("get_booking", <<booking_id>>, 400, <<"Invalid id">>, <<>>, <<>>, bs, es)
  ELSE
  LET b == FindBooking(bs, oid(booking_id)) IN
  IF b = <<>> THEN
    Outcome("get_booking", <<booking_id>>, 404, <<"Booking not found">>, <<>>,
            <<"booking.find_one">>, bs, es)
  ELSE IF oid(b[1].session_id) = Invalid THEN
    Outcome("get_booking", <<booking_id>>, 400, <<"Invalid id">>, <<>>,
            <<"booking.find_one">>, bs, es)
  ELSE
    Outcome("get_booking", <<booking_id>>, 200, <<"OK">>,
            <<str(b[1]._id), FindSession(oid(b[1].session_id)),
              FindWorkshop(b[1].workshop_slug)>>,
            <<"booking.find_one", "session.find_one", "workshop.find_one">>,
            bs, es)

\* POST /api/payments/checkout.  The token is "PAY_" and the last six
\* characters of the id string as sent; the model keeps the whole string.
initiate_payment(booking_id, bs, es) ==
  IF oid(booking_id) = Invalid THEN
    Outcome("initiate_payment", <<booking_id>>, 400, <<"Invalid id">>, <<>>, <<>>, bs, es)
  ELSE
  LET b == FindBooking(bs, oid(booking_id)) IN
  IF b = <<>> THEN
    Outcome("initiate_payment", <<booking_id>>, 404, <<"Booking not found">>, <<>>,
            <<"booking.find_one">>, bs, es)
  ELSE IF b[1].status = "confirmed" THEN
    Outcome("initiate_payment", <<booking_id>>, 200, <<"OK">>, <<"already_paid">>,
            <<"booking.find_one">>, bs, es)
  ELSE
    Outcome("initiate_payment", <<booking_id>>, 200, <<"OK">>,
            <<<<"PAY_", booking_id>>, b[1].amount, "INR">>,
            <<"booking.find_one">>, bs, es)

\* The inner loop of send_reminders for one session: one reminder entry per
\* booking whose session_id equals str(s._id) and whose status is confirmed.
SessionReminders(s, bs) ==
  LET bookings == SelectSeq(bs, LAMBDA b :
                    b.session_id = str(s._id) /\ b.status = "confirmed")
  IN [i \in 1..Len(bookings) |->
        [type |-> "reminder",
         to |-> bookings[i].customer_email,
         booking_id |-> str(bookings[i]._id)]]

RECURSIVE Reminders(_, _)
Reminders(sessions, bs) ==
  IF sessions = <<>> THEN <<>>
  ELSE SessionReminders(sessions[1], bs) \o Reminders(Tail(sessions), bs)

RECURSIVE ReminderCalls(_, _)
ReminderCalls(sessions, bs) ==
  IF sessions = <<>> THEN <<>>
  ELSE <<"booking.find">>
         \o [i \in 1..Len(SessionReminders(sessions[1], bs)) |->
               "email.insert_one"]
         \o ReminderCalls(Tail(sessions), bs)

\* POST /admin/send-reminders, called when the clock reads t.
send_reminders(t, bs, es) ==
  LET in_24h == t + ReminderWindow
      sessions == SelectSeq(session, LAMBDA s :
                    s.start_time >= t /\ s.start_time <= in_24h)
      created == Reminders(sessions, bs)
  IN Outcome("send_reminders", <<t>>, 200, <<"OK">>, <<Len(created)>>,
             <<"session.find">> \o ReminderCalls(sessions, bs),
             bs, es \o created)

(* --------------------- serialized requests (Spec) ---------------------- *)

\* A handler runs to completion before the next request is served: a request
\* is taken only when the previous response has been sent (last = Idle), and
\* the whole handler is one step.
Idle == [op |-> "none", args |-> <<>>, status |-> 0, detail |-> <<>>,
         body |-> <<>>, calls |-> <<>>]

Apply(r) ==
  /\ last.op = "none"
  /\ Len(r.booking) <= MaxBookings
  /\ Len(r.email) <= MaxEmails
  /\ booking' = r.booking
  /\ email' = r.email
  /\ last' = r.last
  /\ UNCHANGED <<workshop, session, now, conc>>

\* The response is sent to the client.
Respond ==
  /\ last.op # "none"
  /\ last' = Idle
  /\ UNCHANGED <<store, now, conc>>

CreateBooking(payload) == Apply(create_booking(payload, booking, email))

ConfirmPayment(payload) == Apply(confirm_payment(payload, booking, email))

GetBooking(booking_id) == Apply(get_booking(booking_id, booking, email))

InitiatePayment(booking_id) ==
  Apply(initiate_payment(booking_id, booking, email))

SendReminders == Apply(send_reminders(now, booking, email))

\* The clock advances to a later reading.
Tick ==
  /\ \E t \in ClockValues : t > now /\ now' = t
  /\ last.op = "none"
  /\ UNCHANGED <<store, last, conc>>

\* Two requests may be in service at once (SpecConc).
Procs == {1, 2}

NoRequest == [op |-> "none", args |-> <<>>]

NoLocals == [w |-> <<>>, s |-> <<>>, available |-> 0, booking_id |-> <<>>,
             b |-> <<>>]

NoResponse == [status |-> 0, detail |-> <<>>, body |-> <<>>]

InitCommon ==
  /\ workshop = WORKSHOPS
  /\ session = SeedSessions
  /\ email = <<>>
  /\ now = 10
  /\ last = Idle
  /\ pc = [p \in Procs |-> "idle"]
  /\ req = [p \in Procs |-> NoRequest]
  /\ loc = [p \in Procs |-> NoLocals]
  /\ res = [p \in Procs |-> NoResponse]

\* The store right after ensure_seed: no bookings.
Init ==
  /\ InitCommon
  /\ booking = <<>>

Next ==
  \/ \E payload \in BookingRequests : CreateBooking(payload)
  \/ \E payload \in PaymentConfirmRequests : ConfirmPayment(payload)
  \/ \E booking_id \in BookingIdStrings : GetBooking(booking_id)
  \/ \E booking_id \in BookingIdStrings : InitiatePayment(booking_id)
  \/ SendReminders
  \/ Respond
  \/ Tick

Spec == Init /\ [][Next]_vars

(* ------------- a store that already holds a booking (SpecStore) -------- *)

\* Statuses a booking document may carry (schemas.Booking.status).
Statuses == {"pending_payment", "confirmed", "cancelled", "failed"}

\* One booking of the first seeded session that fills it, in any status: the
\* store as an earlier run, or the studio's staff, may have left it.
SeededBookings ==
  { << [_id |-> NewBookingId(<<>>),
        workshop_slug |-> SeedSessions[1].workshop_slug,
        session_id |-> str(SeedSessions[1]._id),
        customer_email |-> "ann@mail.example",
        seats |-> Capacity,
        amount |-> WORKSHOPS[2].price * Capacity,
        status |-> st,
        payment_reference |-> IF st = "confirmed" THEN "ref-A"
                              ELSE NoReference] >> : st \in Statuses }

InitStore ==
  /\ InitCommon
  /\ booking \in SeededBookings

SpecStore == InitStore /\ [][Next]_vars

(* ----------------- requests served concurrently (SpecConc) ------------- *)

\* Each handler is run by a request process p, one store call per step: the
\* store serves one call at a time, and nothing else orders two requests.

ConcBookingRequests ==
  [workshop_slug : {"pottery", "macrame"},
   session_id : {<<"hex", 1>>, <<"hex", 2>>, <<"bad", 0>>},
   customer_email : {"ann@mail.example"}, seats : {1, Capacity}]

ConcConfirmRequests ==
  [booking_id : {<<"hex", Len(SeedSessions) + 1>>, <<"hex", 0>>, <<"bad", 0>>},
   payment_reference : PaymentReferences]

\* Documents that the requests in service may still insert.
PendingBookings ==
  Cardinality({p \in Procs : pc[p] \in {"cb_find_workshop", "cb_find_session",
                                        "cb_aggregate", "cb_insert_booking"}})

PendingEmailsOf(p) ==
  CASE pc[p] \in {"cb_find_workshop", "cb_find_session", "cb_aggregate",
                  "cb_insert_booking", "cb_insert_email"} -> 1
    [] pc[p] \in {"cp_update", "cp_find", "cp_email_customer"} -> 2
    [] pc[p] = "cp_email_admin" -> 1
    [] OTHER -> 0

PendingEmails == PendingEmailsOf(1) + PendingEmailsOf(2)

\* The handler of p ends with this response.
Finish(p, status, detail, body) ==
  /\ pc' = [pc EXCEPT ![p] = "done"]
  /\ res' = [res EXCEPT ![p] = [status |-> status, detail |-> detail,
                                body |-> body]]

Goto(p, label) ==
  /\ pc' = [pc EXCEPT ![p] = label]
  /\ UNCHANGED res

StartCreateBooking(p, payload) ==
  /\ pc[p] = "idle"
  /\ Len(booking) + PendingBookings + 1 <= MaxBookings
  /\ Len(email) + PendingEmails + 1 <= MaxEmails
  /\ req' = [req EXCEPT ![p] = [op |-> "create_booking", args |-> payload]]
  /\ pc' = [pc EXCEPT ![p] = "cb_find_workshop"]
  /\ UNCHANGED <<store, now, last, loc, res>>

\* w = db["workshop"].find_one(...); then oid(payload.session_id)
CbFindWorkshop(p) ==
  /\ pc[p] = "cb_find_workshop"
  /\ LET payload == req[p].args
         w == FindWorkshop(payload.workshop_slug)
     IN IF w = <<>>
        THEN Finish(p, 404, <<"Workshop not found">>, <<>>) /\ UNCHANGED loc
        ELSE IF oid(payload.session_id) = Invalid
        THEN Finish(p, 400, <<"Invalid id">>, <<>>) /\ UNCHANGED loc
        ELSE /\ Goto(p, "cb_find_session")
             /\ loc' = [loc EXCEPT ![p].w = w]
  /\ UNCHANGED <<store, now, last, req>>

\* s = db["session"].find_one(...)
CbFindSession(p) ==
  /\ pc[p] = "cb_find_session"
  /\ LET payload == req[p].args
         s == FindSession(oid(payload.session_id))
     IN IF InvalidSession(s, payload.workshop_slug)
        THEN Finish(p, 400, <<"Invalid session">>, <<>>) /\ UNCHANGED loc
        ELSE /\ Goto(p, "cb_aggregate")
             /\ loc' = [loc EXCEPT ![p].s = s]
  /\ UNCHANGED <<store, now, last, req>>

\* booked = db["booking"].aggregate(...); the gate on the value just read
CbAggregate(p) ==
  /\ pc[p] = "cb_aggregate"
  /\ LET payload == req[p].args
         total_booked == TotalBooked(booking, payload.session_id)
         available == Available(loc[p].s[1], total_booked)
     IN IF SeatsExceed(payload.seats, available)
        THEN /\ Finish(p, 400, <<"Only", available, "seats left">>, <<>>)
             /\ UNCHANGED loc
        ELSE /\ Goto(p, "cb_insert_booking")
             /\ loc' = [loc EXCEPT ![p].available = available]
  /\ UNCHANGED <<store, now, last, req>>

\* the insert preceded by a second look at the seats now held
CbInsertBooking_Recheck(p) ==
  /\ pc[p] = "cb_insert_booking"
  /\ LET payload == req[p].args
         amount == Amount(loc[p].w[1], payload.seats)
         available == Available(loc[p].s[1],
                                TotalBooked(booking, payload.session_id))
     IN IF SeatsExceed(payload.seats, available)
        THEN /\ Finish(p, 400, <<"Only", available, "seats left">>, <<>>)
             /\ UNCHANGED <<booking, loc>>
        ELSE /\ booking' =
                  InsertBooking(booking, BookingDocument(payload, amount))
             /\ loc' = [loc EXCEPT ![p].booking_id =
                          str(NewBookingId(booking))]
             /\ Goto(p, "cb_insert_email")
  /\ UNCHANGED <<workshop, session, email, now, last, req>>

\* booking_id = create_document("booking", {...})
CbInsertBooking(p) ==
  /\ pc[p] = "cb_insert_booking"
  /\ LET payload == req[p].args
         amount == Amount(loc[p].w[1], payload.seats)
     IN /\ booking' = InsertBooking(booking, BookingDocument(payload, amount))
        /\ loc' = [loc EXCEPT ![p].booking_id = str(NewBookingId(booking))]
  /\ Goto(p, "cb_insert_email")
  /\ UNCHANGED <<workshop, session, email, now, last, req>>

\* create_document("email", {...}); return
CbInsertEmail(p) ==
  /\ pc[p] = "cb_insert_email"
  /\ LET payload == req[p].args
     IN /\ email' = Append(email,
                           BookingCreatedEmail(payload, loc[p].booking_id))
        /\ Finish(p, 200, <<"OK">>,
                  <<loc[p].booking_id, Amount(loc[p].w[1], payload.seats),
                    "INR">>)
  /\ UNCHANGED <<workshop, session, booking, now, last, req, loc>>

StartConfirmPayment(p, payload) ==
  /\ pc[p] = "idle"
  /\ Len(email) + PendingEmails + 2 <= MaxEmails
  /\ req' = [req EXCEPT ![p] = [op |-> "confirm_payment", args |-> payload]]
  /\ pc' = [pc EXCEPT ![p] = "cp_update"]
  /\ UNCHANGED <<store, now, last, loc, res>>

\* res = db["booking"].update_one(...); the test of res.matched_count
CpUpdate(p) ==
  /\ pc[p] = "cp_update"
  /\ LET payload == req[p].args IN
     IF oid(payload.booking_id) = Invalid
     THEN Finish(p, 400, <<"Invalid id">>, <<>>) /\ UNCHANGED booking
     ELSE IF FindBooking(booking, oid(payload.booking_id)) = <<>>
     THEN Finish(p, 404, <<"Booking not found">>, <<>>) /\ UNCHANGED booking
     ELSE /\ booking' = UpdateBooking(booking, oid(payload.booking_id),
                                      payload.payment_reference)
          /\ Goto(p, "cp_find")
  /\ UNCHANGED <<workshop, session, email, now, last, req, loc>>

\* b = db["booking"].find_one(...)
CpFind(p) ==
  /\ pc[p] = "cp_find"
  /\ loc' = [loc EXCEPT ![p].b =
               FindBooking(booking, oid(req[p].args.booking_id))]
  /\ Goto(p, "cp_email_customer")
  /\ UNCHANGED <<store, now, last, req>>

\* create_document("email", {"type": "booking_confirmed", ...})
CpEmailCustomer(p) ==
  /\ pc[p] = "cp_email_customer"
  /\ email' = Append(email, ConfirmationEmails(loc[p].b[1], req[p].args)[1])
  /\ Goto(p, "cp_email_admin")
  /\ UNCHANGED <<workshop, session, booking, now, last, req, loc>>

\* create_document("email", {"type": "admin_new_booking", ...}); return
CpEmailAdmin(p) ==
  /\ pc[p] = "cp_email_admin"
  /\ email' = Append(email, ConfirmationEmails(loc[p].b[1], req[p].args)[2])
  /\ Finish(p, 200, <<"OK">>, <<"confirmed">>)
  /\ UNCHANGED <<workshop, session, booking, now, last, req, loc>>

\* The response of p is sent; p is free to serve another request.
Return(p) ==
  /\ pc[p] = "done"
  /\ pc' = [pc EXCEPT ![p] = "idle"]
  /\ req' = [req EXCEPT ![p] = NoRequest]
  /\ loc' = [loc EXCEPT ![p] = NoLocals]
  /\ res' = [res EXCEPT ![p] = NoResponse]
  /\ UNCHANGED <<store, now, last>>

InitConc ==
  /\ InitCommon
  /\ booking \in {<<>>} \cup SeededBookings

NextConc ==
  \E p \in Procs :
    \/ \E payload \in ConcBookingRequests : StartCreateBooking(p, payload)
    \/ CbFindWorkshop(p)
    \/ CbFindSession(p)
    \/ CbAggregate(p)
    \/ CbInsertBooking(p)
    \/ CbInsertEmail(p)
    \/ \E payload \in ConcConfirmRequests : StartConfirmPayment(p, payload)
    \/ CpUpdate(p)
    \/ CpFind(p)
    \/ CpEmailCustomer(p)
    \/ CpEmailAdmin(p)
    \/ Return(p)

SpecConc == InitConc /\ [][NextConc]_vars

(* ======================= properties of the handlers ==================== *)

\* The session a booking is for is the one its session_id parses to (this is
\* how get_booking resolves it).
SessionBookings(bs, s) ==
  SelectSeq(bs, LAMBDA b : ParseObjectId(b.session_id) = s._id)

\* Seats of a session held by its pending_payment and confirmed bookings.
HeldSeats(bs, s) ==
  SumSeats(SelectSeq(SessionBookings(bs, s),
                     LAMBDA b : b.status \in ActiveStatuses))

KnownWorkshop(slug) == \E w \in Range(workshop) : w.slug = slug

WellFormed(id_str) == id_str[1] \in {"hex", "HEX"}

\* The sessions an id string names (none when it is malformed or unknown).
SessionsNamed(id_str) ==
  {s \in Range(session) : WellFormed(id_str) /\ s._id = id_str[2]}

\* Positions of the bookings an id string names.
BookingsNamed(bs, id_str) ==
  {i \in DOMAIN bs : WellFormed(id_str) /\ bs[i]._id = id_str[2]}

IsPrefix(old, new) ==
  Len(old) <= Len(new) /\ SubSeq(new, 1, Len(old)) = old

\* the seat range of schemas.Booking
MinSeats == 1

MaxSeats == 10

(* C1: with requests served one at a time from a store with no bookings,   *)
(* the seats held by the pending_payment and confirmed bookings of a       *)
(* session never exceed its capacity.                                      *)
C1_SerializedCapacity ==
  \A s \in Range(session) : HeldSeats(booking, s) <= s.capacity

(* C8: every stored booking has between 1 and 10 seats.                    *)
C8_SeatRange ==
  \A i \in DOMAIN booking : booking[i].seats \in MinSeats..MaxSeats

(* C3: for a valid workshop/session pair create_booking fails with         *)
(* "Only <available> seats left" exactly when seats > available, where     *)
(* available = capacity - seats held by the session's pending_payment and  *)
(* confirmed bookings (not floored); otherwise it succeeds.                *)
C3_CapacityGate ==
  [][last'.op = "create_booking" =>
       LET payload == last'.args IN
       KnownWorkshop(payload.workshop_slug) =>
         \A s \in SessionsNamed(payload.session_id) :
           s.workshop_slug = payload.workshop_slug =>
             LET available == s.capacity - HeldSeats(booking, s) IN
             IF payload.seats > available
             THEN /\ last'.status = 400
                  /\ last'.detail = <<"Only", available, "seats left">>
             ELSE last'.status = 200]_vars

(* C4: create_booking fails with 404 when the workshop slug is unknown and *)
(* with 400 when the session does not exist or belongs to another          *)
(* workshop; whenever it fails, the booking collection and the email log   *)
(* are unchanged.                                                          *)
C4_ValidationFailures ==
  [][last'.op = "create_booking" =>
       LET payload == last'.args IN
         /\ ~KnownWorkshop(payload.workshop_slug) => last'.status = 404
         /\ ( /\ KnownWorkshop(payload.workshop_slug)
              /\ \A s \in SessionsNamed(payload.session_id) :
                    s.workshop_slug # payload.workshop_slug )
            => /\ last'.status = 400
               /\ last'.detail =
                    IF WellFormed(payload.session_id)
                    THEN <<"Invalid session">> ELSE <<"Invalid id">>
         /\ last'.status # 200 => booking' = booking /\ email' = email]_vars

C4_Witness ==
  /\ last.op = "create_booking"
  /\ last.status = 400
  /\ last.detail = <<"Invalid session">>
  /\ booking # <<>>

(* C5: a successful create_booking appends one booking (pending_payment,   *)
(* the requested session id and seats, amount = stored price * seats) and  *)
(* one booking_created log entry to the customer with the new booking's    *)
(* id, returns that id and amount, and changes nothing else.               *)
C5_CreateEffect ==
  [][last'.op = "create_booking" /\ last'.status = 200 =>
       LET payload == last'.args IN
         /\ Len(booking') = Len(booking) + 1
         /\ IsPrefix(booking, booking')
         /\ LET new == booking'[Len(booking')] IN
            /\ \A i \in DOMAIN booking : booking[i]._id # new._id
            /\ new.status = "pending_payment"
            /\ new.workshop_slug = payload.workshop_slug
            /\ new.session_id = payload.session_id
            /\ new.seats = payload.seats
            /\ new.customer_email = payload.customer_email
            /\ \E w \in Range(workshop) :
                 /\ w.slug = payload.workshop_slug
                 /\ new.amount = w.price * payload.seats
            /\ Len(email') = Len(email) + 1
            /\ IsPrefix(email, email')
            /\ email'[Len(email')] =
                 [type |-> "booking_created", to |-> payload.customer_email,
                  booking_id |-> <<"hex", new._id>>]
            /\ last'.body = <<<<"hex", new._id>>, new.amount, "INR">>
         /\ session' = session
         /\ workshop' = workshop]_vars

C5_Witness ==
  /\ last.op = "create_booking"
  /\ last.status = 200
  /\ Len(booking) = 2
  /\ booking[2].seats = Capacity

\* What confirm_payment does to a store in which the id names a booking.
ConfirmedEffect(payload, hit) ==
  /\ last'.status = 200
  /\ Len(booking') = Len(booking)
  /\ \A i \in DOMAIN booking :
       booking'[i] =
         IF i \in hit
         THEN [booking[i] EXCEPT !.status = "confirmed",
                 !.payment_reference = payload.payment_reference]
         ELSE booking[i]
  /\ Len(email') = Len(email) + 2
  /\ IsPrefix(email, email')
  /\ \E i \in hit :
       {<<email'[k].type, email'[k].to>> : k \in Len(email) + 1..Len(email')}
         = {<<"booking_confirmed", booking[i].customer_email>>,
            <<"admin_new_booking", "admin@handiq.example">>}

IdArgument(request) ==
  CASE request.op = "create_booking" -> request.args.session_id
    [] request.op = "confirm_payment" -> request.args.booking_id
    [] OTHER -> request.args[1]

IdOperations ==
  {"create_booking", "get_booking", "initiate_payment", "confirm_payment"}

(* C7 as stated: every operation that takes a store id fails on a          *)
(* malformed id without having made any call on the store.                 *)
C7_MalformedBeforeLookup ==
  [][last'.op \in IdOperations /\ ~WellFormed(IdArgument(last')) =>
       /\ last'.status # 200
       /\ last'.calls = <<>>
       /\ store' = store]_vars

(* C7 amended: get_booking, initiate_payment and confirm_payment fail on a *)
(* malformed id with 400 and no call on the store; create_booking with a   *)
(* malformed session id first looks the workshop up, fails with 404 when   *)
(* the slug is unknown and with 400 otherwise, and makes no other call; in *)
(* every case the store is unchanged.                                      *)
C7_MalformedAmended ==
  [][last'.op \in IdOperations /\ ~WellFormed(IdArgument(last')) =>
       /\ IF last'.op = "create_booking"
          THEN /\ last'.calls = <<"workshop.find_one">>
               /\ last'.status =
                    IF KnownWorkshop(last'.args.workshop_slug)
                    THEN 400 ELSE 404
          ELSE /\ last'.calls = <<>>
               /\ last'.status = 400
               /\ last'.detail = <<"Invalid id">>
       /\ store' = store]_vars

C7_Witness ==
  /\ last.op = "create_booking"
  /\ ~WellFormed(last.args.session_id)
  /\ last.detail = <<"Invalid id">>
  /\ last.calls = <<"workshop.find_one">>
  /\ booking # <<>>

(* C10: send_reminders appends exactly one reminder entry for each         *)
(* confirmed booking of a session that starts within 24 hours of now, none *)
(* for any other booking, returns the number appended and changes no       *)
(* booking; what is already in the log does not matter (no deduplication). *)
C10_Reminders ==
  [][last'.op = "send_reminders" =>
       LET t == last'.args[1]
           due == {i \in DOMAIN booking :
                     /\ booking[i].status = "confirmed"
                     /\ \E s \in Range(session) :
                          /\ ParseObjectId(booking[i].session_id) = s._id
                          /\ s.start_time >= t
                          /\ s.start_time <= t + 24}
           new == SubSeq(email', Len(email) + 1, Len(email'))
       IN /\ IsPrefix(email, email')
          /\ Len(new) = Cardinality(due)
          /\ \A i \in due :
               Cardinality({k \in DOMAIN new :
                  new[k] = [type |-> "reminder",
                            to |-> booking[i].customer_email,
                            booking_id |-> <<"hex", booking[i]._id>>]}) = 1
          /\ last'.body = <<Len(new)>>
          /\ booking' = booking]_vars

(* ================= properties of concurrent requests =================== *)

(* C2: create_booking does not look at the bookings again between the      *)
(* availability read and the insert: a request that has passed the gate    *)
(* inserts its booking whatever the store holds by then, and succeeds.  So *)
(* two requests that both read before either inserts both succeed, and the *)
(* seats held can exceed the capacity (C2_Witness).                        *)
C2_NoRecheck ==
  [][\A p \in Procs :
       /\ (pc[p] = "cb_insert_booking" /\ pc'[p] # pc[p]) =>
            /\ Len(booking') = Len(booking) + 1
            /\ IsPrefix(booking, booking')
            /\ booking'[Len(booking')].seats = req[p].args.seats
            /\ booking'[Len(booking')].session_id = req[p].args.session_id
            /\ booking'[Len(booking')].status = "pending_payment"
            /\ pc'[p] = "cb_insert_email"
       /\ (pc[p] = "cb_insert_email" /\ pc'[p] # pc[p]) =>
            pc'[p] = "done" /\ res'[p].status = 200]_vars

C2_Witness ==
  /\ \A p \in Procs :
       /\ pc[p] = "done"
       /\ req[p].op = "create_booking"
       /\ res[p].status = 200
       /\ req[p].args.session_id = <<"hex", 1>>
  /\ Len(booking) = 2
  /\ \A i \in DOMAIN booking : booking[i].session_id = <<"hex", 1>>
  /\ \E s \in Range(session) :
       s._id = 1 /\ HeldSeats(booking, s) > s.capacity

(* C9: confirm_payment on an existing booking succeeds whatever its prior  *)
(* status and sets status confirmed and the supplied reference; applied to *)
(* a booking already confirmed with that reference it leaves the booking   *)
(* collection as it is; under any interleaving of confirmations each one   *)
(* that matched ends with 200, and the stored reference is always that of  *)
(* the update applied last.                                                *)
C9_UnconditionalConfirm ==
  [][\A p \in Procs :
       /\ (pc[p] = "cp_update" /\ pc'[p] # pc[p]) =>
            LET payload == req[p].args
                hit == BookingsNamed(booking, payload.booking_id)
            IN hit # {} =>
                 /\ pc'[p] = "cp_find"
                 /\ \A i \in hit :
                      /\ booking'[i].status = "confirmed"
                      /\ booking'[i].payment_reference
                           = payload.payment_reference
                      /\ ( /\ booking[i].status = "confirmed"
                           /\ booking[i].payment_reference
                                = payload.payment_reference )
                         => booking' = booking
       /\ (pc[p] \in {"cp_find", "cp_email_customer", "cp_email_admin"}
             /\ pc'[p] = "done") => res'[p].status = 200
       /\ \A i \in DOMAIN booking :
            booking'[i].payment_reference # booking[i].payment_reference =>
              \E q \in Procs :
                /\ pc[q] = "cp_update"
                /\ pc'[q] = "cp_find"
                /\ booking'[i].payment_reference
                     = req[q].args.payment_reference]_vars

C9_Witness ==
  /\ \A p \in Procs :
       /\ pc[p] = "done"
       /\ req[p].op = "confirm_payment"
       /\ res[p].status = 200
  /\ req[1].args.payment_reference # req[2].args.payment_reference
  /\ booking # <<>>
  /\ booking[1].status = "confirmed"
  /\ booking[1].payment_reference = "ref-B"

(* ===================== the same, for canonical ids ===================== *)

\* The three properties that fail above fail only through bookings whose
\* session_id was sent in upper case.  While every stored session_id is the
\* lowercase rendering, and the request's is too, they hold.
CanonicalStore == \A i \in DOMAIN booking : booking[i].session_id[1] = "hex"

Canonical_C1 == CanonicalStore => C1_SerializedCapacity

Canonical_C3 ==
  [][(last'.op = "create_booking" /\ CanonicalStore
        /\ last'.args.session_id[1] # "HEX") =>
       LET payload == last'.args IN
       KnownWorkshop(payload.workshop_slug) =>
         \A s \in SessionsNamed(payload.session_id) :
           s.workshop_slug = payload.workshop_slug =>
             LET available == s.capacity - HeldSeats(booking, s) IN
             IF payload.seats > available
             THEN /\ last'.status = 400
                  /\ last'.detail = <<"Only", available, "seats left">>
             ELSE last'.status = 200]_vars

Canonical_C10 ==
  [][(last'.op = "send_reminders" /\ CanonicalStore) =>
       LET t == last'.args[1]
           due == {i \in DOMAIN booking :
                     /\ booking[i].status = "confirmed"
                     /\ \E s \in Range(session) :
                          /\ ParseObjectId(booking[i].session_id) = s._id
                          /\ s.start_time >= t
                          /\ s.start_time <= t + 24}
           new == SubSeq(email', Len(email) + 1, Len(email'))
       IN /\ IsPrefix(email, email')
          /\ Len(new) = Cardinality(due)
          /\ \A i \in due :
               Cardinality({k \in DOMAIN new :
                  new[k] = [type |-> "reminder",
                            to |-> booking[i].customer_email,
                            booking_id |-> <<"hex", booking[i]._id>>]}) = 1
          /\ last'.body = <<Len(new)>>
          /\ booking' = booking]_vars

====
